---- MODULE Spec2Model ----
(***************************************************************************)
(* macrotis: a three-way DNS reconciler (local / state / remote).          *)
(* The module models one run of main (src/main.rs) over the comparator     *)
(* (src/compare.rs), the Resource equality (src/resource.rs), the state    *)
(* store (src/state.rs, src/s3.rs) and the Route53 batch loop (src/r53.rs).*)
(***************************************************************************)
EXTENDS Integers, Sequences, FiniteSets, TLC

VARIABLES
    sub,          \* main: subcommand, "lint" | "noop" | "execute"
    backend,      \* config.statefile.backend
    filename,     \* config.statefile.filename
    client,       \* r53::build_client(&config.provider): "Some" | "None"
    input,        \* the ResHash the input files amount to
    fs,           \* local file system: file name -> stored records or NoFile
    s3obj,        \* the S3 state object: stored records or NoFile
    remote,       \* the provider's record sets, by key
    pc,           \* position of main
    local_recs,   \* main: local_recs
    st,           \* main: st.records as loaded
    state_recs,   \* main: state_recs (mutated by state_remote)
    remote_recs,  \* main: remote_recs
    new0,         \* main: new_recs as returned by local_state
    upd0,         \* main: upd_recs as returned by local_state
    new_recs,     \* main: new_recs after new_remote
    upd_recs,     \* main: upd_recs after new_remote
    del_recs,     \* main: del_recs
    by_zone,      \* push_remote: zone id -> Vec<Change>
    zoneid,       \* push_remote: the zone bulk_put is running for, or NoZone
    records,      \* bulk_put: the changes still queued
    batches,      \* the ChangeBatches the provider has received
    retval,       \* push_remote: retval, "none" before the call
    put_ret,      \* bulk_put: "none" | "Ok" | "Err"
    save_ret,     \* save_state: its return value, "none" before the call
    writes,       \* the state locations written by save_state
    mode,         \* load_local: "file" when fname is a file, "dir" otherwise
    files,        \* the lines of the input file, or of each *.tiny file
    zones,        \* config.zones
    tdns_records, \* load_local: tdns_records, tdns_vec for a directory
    converted,    \* load_local: converted
    error_flag,   \* load_local: error_flag of the directory loop
    failed_at     \* the call that made load_local return None, "" if none

\* the variables of load_local
lvars == <<mode, files, zones, tdns_records, converted, error_flag, failed_at>>

vars == <<lvars, sub, backend, filename, client, input, fs, s3obj, remote, pc, local_recs,
          st, state_recs, remote_recs, new0, upd0, new_recs, upd_recs,
          del_recs, by_zone, zoneid, records, batches, retval, put_ret,
          save_ret, writes>>

(***************************************************************************)
(* Bounds of the model.                                                    *)
(***************************************************************************)
\* the provider calls of one run that the model follows
MaxBatches == 2
\* the largest queue handed to bulk_put on its own
MaxChanges == 201

(***************************************************************************)
(* Program constants.                                                      *)
(***************************************************************************)
\* r53.rs: the index handed to split_off
SplitAt == 99
\* the provider's limit on the changes of one ChangeBatch
BatchLimit == 100
\* the ttl of every record of the model's universe
DefaultTtl == 300

(***************************************************************************)
(* The universe of the model: two keys, one per zone.               *)
(***************************************************************************)
Keys == {"a-h1", "a-h2"}
Zones == {"Z1", "Z2"}
RecordVecs(k) == IF k = "a-h1" THEN {<<1>>, <<1, 2>>, <<2, 1>>} ELSE {<<1>>}
FileNames == {"foo", "state.json"}
\* a missing file or object, and a stored state with its records
NoFile == [exists |-> FALSE, records |-> << >>]
Stored(h) == [exists |-> TRUE, records |-> h]
NoZone == "NoZone"
EmptyHash == << >>

ZoneOfKey(k) == IF k = "a-h1" THEN "Z1" ELSE "Z2"
NameOfKey(k) == IF k = "a-h1" THEN "h1" ELSE "h2"

\* resource.rs: struct Resource
Resource(k, v) ==
    [zone_id |-> ZoneOfKey(k), name |-> NameOfKey(k), rtype |-> "A",
     records |-> v, ttl |-> DefaultTtl]

ResourcesOf(k) == {Resource(k, v) : v \in RecordVecs(k)}
AllResources == UNION {ResourcesOf(k) : k \in Keys}

\* resource.rs: struct ResHash, a map from key to Resource
ResHashes ==
    UNION {{h \in [S -> AllResources] : \A k \in S : h[k] \in ResourcesOf(k)}
           : S \in SUBSET Keys}

Min(a, b) == IF a < b THEN a ELSE b

(***************************************************************************)
(* Strings: the str and String methods the program calls.                  *)
(***************************************************************************)
\* the i-th character of s, as a string of length 1
Char(s, i) == SubSeq(s, i, i)

\* the position of the character c in the string t, 0 when it is not there
IndexIn(c, t) ==
    IF \E i \in 1..Len(t) : Char(t, i) = c
    THEN CHOOSE i \in 1..Len(t) :
            Char(t, i) = c /\ \A j \in 1..(i - 1) : Char(t, j) # c
    ELSE 0

\* str::contains(pat), pat a string
contains(s, t) ==
    \E i \in 1..(Len(s) - Len(t) + 1) : SubSeq(s, i, i + Len(t) - 1) = t

starts_with(s, c) == Len(s) >= 1 /\ Char(s, 1) = c
ends_with(s, c) == Len(s) >= 1 /\ Char(s, Len(s)) = c

\* str::split(c).collect(): the pieces between the occurrences of c, the
\* first of which is at position i (0 for none)
RECURSIVE split(_, _)
SplitAt1(s, c, i) ==
    IF i = 0 THEN <<s>>
    ELSE <<SubSeq(s, 1, i - 1)>> \o split(SubSeq(s, i + 1, Len(s)), c)

split(s, c) == SplitAt1(s, c, IndexIn(c, s))

\* str::trim_end_matches(c)
RECURSIVE trim_end_matches(_, _)
trim_end_matches(s, c) ==
    IF ends_with(s, c) THEN trim_end_matches(SubSeq(s, 1, Len(s) - 1), c)
    ELSE s

\* str::trim_start_matches(c)
RECURSIVE trim_start_matches(_, _)
trim_start_matches(s, c) ==
    IF starts_with(s, c) THEN trim_start_matches(SubSeq(s, 2, Len(s)), c)
    ELSE s

\* str::trim_matches(c)
trim_matches(s, c) == trim_end_matches(trim_start_matches(s, c), c)

\* str::replace(c, t), c one character
RECURSIVE replace(_, _, _)
replace(s, c, t) ==
    IF s = "" THEN ""
    ELSE (IF Char(s, 1) = c THEN t ELSE Char(s, 1))
            \o replace(SubSeq(s, 2, Len(s)), c, t)

UpperCase == "ABCDEFGHIJKLMNOPQRSTUVWXYZ"
LowerCase == "abcdefghijklmnopqrstuvwxyz"

\* the lower-case form of the character c, i its position in UpperCase
LowerChar(c, i) == IF i = 0 THEN c ELSE Char(LowerCase, i)

\* str::to_ascii_lowercase
RECURSIVE to_ascii_lowercase(_)
to_ascii_lowercase(s) ==
    IF s = "" THEN ""
    ELSE LowerChar(Char(s, 1), IndexIn(Char(s, 1), UpperCase))
            \o to_ascii_lowercase(SubSeq(s, 2, Len(s)))

\* [&str]::join(sep)
RECURSIVE join(_, _)
join(v, sep) ==
    IF v = << >> THEN ""
    ELSE IF Len(v) = 1 THEN v[1]
    ELSE v[1] \o sep \o join(Tail(v), sep)

\* Vec::reverse
reverse(v) == [i \in 1..Len(v) |-> v[Len(v) + 1 - i]]

Digits == "0123456789"

\* s is a non-empty string of decimal digits
IsDigits(s) ==
    Len(s) >= 1 /\ \A i \in 1..Len(s) : IndexIn(Char(s, i), Digits) # 0

\* a and b strings of digits of the same length: a <= b as numbers
DigitsLeq(a, b) ==
    \/ a = b
    \/ \E i \in 1..Len(a) :
          /\ SubSeq(a, 1, i - 1) = SubSeq(b, 1, i - 1)
          /\ IndexIn(Char(a, i), Digits) < IndexIn(Char(b, i), Digits)

OrZero(t) == IF t = "" THEN "0" ELSE t

\* a string of digits without its leading zeros, "0" for zero
Canonical(s) == OrZero(trim_start_matches(s, "0"))

\* the digits d, canonical, denote a number of at most max
Fits(d, max) ==
    Len(d) < Len(max) \/ (Len(d) = Len(max) /\ DigitsLeq(d, max))

\* the number a string of at most 10 canonical digits denotes
RECURSIVE Decimal(_)
Decimal(d) ==
    IF d = "" THEN 0
    ELSE 10 * Decimal(SubSeq(d, 1, Len(d) - 1))
            + (IndexIn(Char(d, Len(d)), Digits) - 1)

I32Max == "2147483647"
I32MinAbs == "2147483648"
U64Max == "18446744073709551615"
Err == [ok |-> FALSE, val |-> 0]
Ok(x) == [ok |-> TRUE, val |-> x]

Signed(neg, n) == IF neg THEN 0 - n ELSE n

\* the i32 of sign neg and canonical digits d
I32Of(neg, d) ==
    IF neg /\ d = I32MinAbs THEN Ok(-2147483647 - 1)
    ELSE IF ~Fits(d, I32Max) THEN Err
    ELSE Ok(Signed(neg, Decimal(d)))

\* the i32 of sign neg and the text body behind the sign
I32OfBody(neg, body) ==
    IF ~IsDigits(body) THEN Err ELSE I32Of(neg, Canonical(body))

\* str::parse::<i32>(): an optional sign and decimal digits, within range
parse_i32(s) ==
    I32OfBody(starts_with(s, "-"),
              IF starts_with(s, "-") \/ starts_with(s, "+")
              THEN SubSeq(s, 2, Len(s)) ELSE s)

\* Result::unwrap_or(dflt)
unwrap_or(r, dflt) == IF r.ok THEN r.val ELSE dflt

\* str::parse::<i32>().unwrap_or(dflt)
parse_i32_or(s, dflt) == unwrap_or(parse_i32(s), dflt)

\* the u64 of canonical digits d as "{}" prints it, dflt beyond the range
U64Of(d, dflt) == IF Fits(d, U64Max) THEN d ELSE dflt

U64OfBody(body, dflt) ==
    IF IsDigits(body) THEN U64Of(Canonical(body), dflt) ELSE dflt

\* str::parse::<u64>().unwrap_or(dflt), as the decimal text "{}" prints
parse_u64_or(s, dflt) ==
    U64OfBody(IF starts_with(s, "+") THEN SubSeq(s, 2, Len(s)) ELSE s, dflt)

\* one octet of a dotted quad: 1 to 3 digits, no leading zero, at most 255
IsOctet(s) ==
    /\ IsDigits(s)
    /\ Len(s) <= 3
    /\ (Len(s) > 1 => Char(s, 1) # "0")
    /\ Decimal(s) <= 255

IsQuad(o) == Len(o) = 4 /\ \A i \in 1..4 : IsOctet(o[i])

\* str::parse::<Ipv4Addr>().is_ok()
IsIpv4Addr(s) == IsQuad(split(s, "."))

\* resource.rs build_reshash: the key derived from rtype and name
record_name(rtype, name) ==
    to_ascii_lowercase(
        replace(trim_end_matches(rtype \o "-" \o name, "."), ".", "-"))

(***************************************************************************)
(* Resource equality: resource.rs, impl PartialEq for Resource.            *)
(***************************************************************************)
RECURSIVE Insert(_, _)
Insert(x, s) ==
    IF s = << >> THEN <<x>>
    ELSE IF x <= Head(s) THEN <<x>> \o s
    ELSE <<Head(s)>> \o Insert(x, Tail(s))

\* a comparison that leaves the rdata in the order given
SortNoop(s) == s

RECURSIVE Sort(_)
Sort(s) == IF s = << >> THEN << >> ELSE Insert(Head(s), Sort(Tail(s)))

ResEq(a, b) ==
    /\ a.zone_id = b.zone_id
    /\ a.name = b.name
    /\ a.rtype = b.rtype
    /\ Sort(a.records) = Sort(b.records)
    /\ a.ttl = b.ttl

(***************************************************************************)
(* The comparator: compare.rs.                                             *)
(***************************************************************************)
Restrict(h, S) == [k \in S |-> h[k]]

\* state_remote that keeps the records missing from remote
state_remote_keepall(s, re) ==
    [k \in DOMAIN s |->
        IF k \in DOMAIN re /\ ~ResEq(s[k], re[k]) THEN re[k] ELSE s[k]]

\* state_remote that adopts the records of remote unknown to the state
state_remote_adopt(s, re) ==
    [k \in DOMAIN re |-> re[k]]

\* state_remote(st, re): the value of st afterwards
state_remote(s, re) ==
    LET del == {k \in DOMAIN s : k \notin DOMAIN re}
        upd == {k \in DOMAIN s : k \in DOMAIN re /\ ~ResEq(s[k], re[k])}
    IN  [k \in DOMAIN s \ del |-> IF k \in upd THEN re[k] ELSE s[k]]

\* local_state(lo, st): the triple (n, u, d).  x is the identifier the None
\* arm clones; that arm binds no x, so its value is any Resource.
local_state(lo, s, x) ==
    [n |-> [k \in {j \in DOMAIN lo : j \notin DOMAIN s} |-> x],
     u |-> [k \in {j \in DOMAIN lo : j \in DOMAIN s /\ ~ResEq(s[j], lo[j])}
              |-> s[k]],
     d |-> [k \in {j \in DOMAIN s : j \notin DOMAIN lo} |-> s[k]]]

\* new_remote with the identical and the differing case exchanged
new_remote_swap(ne, up, re) ==
    LET drop == {k \in DOMAIN ne : k \in DOMAIN re /\ ~ResEq(ne[k], re[k])}
        mv == {k \in DOMAIN ne : k \in DOMAIN re /\ ResEq(ne[k], re[k])}
    IN  [ne |-> Restrict(ne, DOMAIN ne \ (drop \cup mv)),
         up |-> [k \in DOMAIN up \cup mv |-> IF k \in mv THEN ne[k] ELSE up[k]]]

\* new_remote that copies a moved record and leaves it in ne
new_remote_keep(ne, up, re) ==
    LET mv == {k \in DOMAIN ne : k \in DOMAIN re /\ ~ResEq(ne[k], re[k])}
    IN  [ne |-> ne,
         up |-> [k \in DOMAIN up \cup mv |-> IF k \in mv THEN ne[k] ELSE up[k]]]

\* new_remote that moves every new record to updated
new_remote_moveall(ne, up, re) ==
    [ne |-> EmptyHash,
     up |-> [k \in DOMAIN up \cup DOMAIN ne |->
                IF k \in DOMAIN ne THEN ne[k] ELSE up[k]]]

\* new_remote(ne, up, re): the values of ne and up afterwards
new_remote(ne, up, re) ==
    LET drop == {k \in DOMAIN ne : k \in DOMAIN re /\ ResEq(ne[k], re[k])}
        mv == {k \in DOMAIN ne : k \in DOMAIN re /\ ~ResEq(ne[k], re[k])}
    IN  [ne |-> Restrict(ne, DOMAIN ne \ (drop \cup mv)),
         up |-> [k \in DOMAIN up \cup mv |-> IF k \in mv THEN ne[k] ELSE up[k]]]

(***************************************************************************)
(* The provider adapter: r53.rs.                                           *)
(***************************************************************************)
\* Vec::split_off(at): the returned tail and what is left in the vector
split_off(v, at) ==
    [chunk |-> SubSeq(v, at + 1, Len(v)), rest |-> SubSeq(v, 1, at)]

\* resource_to_change(action, res)
resource_to_change(action, res) ==
    [action |-> action,
     resource_record_set |->
        [name |-> res.name, type_ |-> res.rtype, ttl |-> res.ttl,
         resource_records |-> res.records]]

\* bulk_put: the chunk of one iteration of the loop and the queue left
bulk_put_iter(v) == split_off(v, Min(Len(v), SplitAt))

\* the provider applying an accepted batch: per key, its last change decides
ApplyBatch(re, zone, chunk) ==
    LET keys == SubSeq([i \in 1..Len(chunk) |->
                           record_name(chunk[i].resource_record_set.type_,
                                       chunk[i].resource_record_set.name)],
                       1, Len(chunk))
        KeyAt(i) == keys[i]
        Touched == {KeyAt(i) : i \in 1..Len(chunk)}
        Last(k) == CHOOSE i \in 1..Len(chunk) :
                      /\ KeyAt(i) = k
                      /\ \A j \in 1..Len(chunk) : KeyAt(j) = k => j <= i
        Gone == {k \in Touched : chunk[Last(k)].action = "DELETE"}
        ResAt(i) == [zone_id |-> zone,
                     name |-> chunk[i].resource_record_set.name,
                     rtype |-> chunk[i].resource_record_set.type_,
                     records |-> chunk[i].resource_record_set.resource_records,
                     ttl |-> chunk[i].resource_record_set.ttl]
    IN  [k \in (DOMAIN re \cup Touched) \ Gone |->
            IF k \in Touched THEN ResAt(Last(k)) ELSE re[k]]

\* main.rs load_remote: bulk_fetch of every zone, the failed ones skipped
load_remote(re, fetched) ==
    Restrict(re, {k \in DOMAIN re : re[k].zone_id \in fetched})

(***************************************************************************)
(* push_remote: main.rs.                                                   *)
(***************************************************************************)
\* the (action, key) pairs of to_push
ToPush(ne, up, de) ==
    {<<"CREATE", k>> : k \in DOMAIN ne} \cup
    {<<"UPSERT", k>> : k \in DOMAIN up} \cup
    {<<"DELETE", k>> : k \in DOMAIN de}

ResOf(e, ne, up, de) ==
    IF e[1] = "CREATE" THEN ne[e[2]]
    ELSE IF e[1] = "UPSERT" THEN up[e[2]] ELSE de[e[2]]

\* the orders in which a HashMap may be iterated
Orders(S) ==
    {s \in [1..Cardinality(S) -> S] :
        \A i, j \in 1..Cardinality(S) : i # j => s[i] # s[j]}

\* the by_zone maps push_remote may build
ByZones(ne, up, de) ==
    LET E == ToPush(ne, up, de)
        zs == {ResOf(e, ne, up, de).zone_id : e \in E}
        Ez(z) == {e \in E : ResOf(e, ne, up, de).zone_id = z}
    IN  {[z \in zs |->
            [i \in 1..Cardinality(Ez(z)) |->
                resource_to_change(o[z][i][1], ResOf(o[z][i], ne, up, de))]]
         : o \in {f \in [zs -> UNION {Orders(Ez(z)) : z \in zs}] :
                    \A z \in zs : f[z] \in Orders(Ez(z))}}

(***************************************************************************)
(* The state store: state.rs, s3.rs.                                       *)
(***************************************************************************)
\* where load_state reads the state from
LoadLocation == IF backend = "local" THEN filename ELSE "s3"

\* where save_state writes the state to
SaveLocation == IF backend = "local" THEN "foo" ELSE "s3"

(***************************************************************************)
(* The tinydns parser: tinydns/parser.rs.                                  *)
(***************************************************************************)
\* tinydns/mod.rs: struct TinyDNSRecord
TinyDNSRecord(rtype, fqdn, target, ttl) ==
    [rtype |-> rtype, fqdn |-> fqdn, target |-> target, ttl |-> ttl]

\* the ttl found at position i of parts, 300 when there is none
TtlAt(parts, i) ==
    IF Len(parts) < i THEN DefaultTtl ELSE parse_i32_or(parts[i], DefaultTtl)

\* x as it is when it contains a period, x.<infix>.fqdn otherwise
Qualified(x, infix, fqdn) ==
    IF contains(x, ".") THEN x ELSE x \o "." \o infix \o "." \o fqdn

\* parse, data split into parts
ParseParts(rtype, parts) ==
    IF Len(parts) < 2 THEN << >>
    ELSE IF rtype = "A" /\ ~IsIpv4Addr(parts[2]) THEN << >>
    ELSE <<TinyDNSRecord(rtype, parts[1], replace(parts[2], "\"", ""),
                         TtlAt(parts, 3))>>

\* parse(rtype, data): +fqdn:rec:ttl, ^fqdn:rec:ttl, Cfqdn:rec:ttl
parse(rtype, data) == ParseParts(rtype, split(data, ":"))

\* parse_txt: the chunks joined with ":" until one ends with a double quote
RECURSIVE TxtJoin(_, _)
TxtJoin(rec, rest) ==
    IF ends_with(rec, "\"") THEN [ok |-> TRUE, rec |-> rec, rest |-> rest]
    ELSE IF rest = << >> THEN [ok |-> FALSE, rec |-> rec, rest |-> rest]
    ELSE TxtJoin(rec \o ":" \o Head(rest), Tail(rest))

\* parse_txt, the quoted text found as j
TxtRecord(fqdn, j) ==
    IF ~j.ok THEN << >>
    ELSE <<TinyDNSRecord("TXT", fqdn, trim_matches(j.rec, "\""),
                         TtlAt(j.rest, 1))>>

\* parse_txt, data split into parts
TxtParts(parts) ==
    IF Len(parts) < 2 THEN << >>
    ELSE IF ~starts_with(parts[2], "\"") THEN << >>
    ELSE TxtRecord(parts[1], TxtJoin(parts[2], SubSeq(parts, 3, Len(parts))))

\* parse_txt(data): 'fqdn:rec:ttl
parse_txt(data) == TxtParts(split(data, ":"))

\* parse_mx: the MX record and the A record of the exchanger
MxRecords(fqdn, ip, mx_fqdn, mx_dist, ttl) ==
    <<TinyDNSRecord("MX", fqdn, ToString(mx_dist) \o " " \o mx_fqdn, ttl),
      TinyDNSRecord("A", mx_fqdn, ip, ttl)>>

\* parse_mx, data split into parts
MxParts(parts) ==
    IF Len(parts) < 3 THEN << >>
    ELSE IF ~IsIpv4Addr(parts[2]) THEN << >>
    ELSE MxRecords(parts[1], parts[2], Qualified(parts[3], "mx", parts[1]),
                   IF Len(parts) < 4 THEN 0 ELSE parse_i32_or(parts[4], 0),
                   TtlAt(parts, 5))

\* parse_mx(data): @fqdn:ip:x:dist:ttl
parse_mx(data) == MxParts(split(data, ":"))

\* the i-th optional i32 of an SOA line, as "{}" prints it
SoaField(parts, i, dflt) ==
    IF Len(parts) < i THEN ToString(dflt)
    ELSE ToString(parse_i32_or(parts[i], dflt))

\* parse_soa, data split into parts
SoaParts(parts, right_now) ==
    IF Len(parts) < 3 THEN << >>
    ELSE <<TinyDNSRecord("SOA", parts[1],
              parts[2] \o " " \o parts[3]
                \o " " \o (IF Len(parts) < 4 THEN right_now
                           ELSE parse_u64_or(parts[4], right_now))
                \o " " \o SoaField(parts, 5, 16384)
                \o " " \o SoaField(parts, 6, 2048)
                \o " " \o SoaField(parts, 7, 1048576)
                \o " " \o SoaField(parts, 8, 2560),
              TtlAt(parts, 9))>>

\* parse_soa(data): Zfqdn:ns:contact:serial:refresh:retry:expire:min:ttl,
\* right_now the seconds since the epoch as text
parse_soa(data, right_now) == SoaParts(split(data, ":"), right_now)

\* parse_anssoa: the NS record, the A record unless ip is empty, the SOA
AnsSoaRecords(fqdn, ip, ns_fqdn, ttl) ==
    <<TinyDNSRecord("NS", ns_fqdn, fqdn, ttl)>>
    \o (IF ip # "" THEN <<TinyDNSRecord("A", ns_fqdn, ip, ttl)>> ELSE << >>)
    \o <<TinyDNSRecord("SOA", fqdn,
            ns_fqdn \o " hostmaster." \o fqdn \o " 1 1 1 1 60", ttl)>>

\* parse_anssoa, data split into parts
AnsSoaParts(parts) ==
    IF Len(parts) < 3 THEN << >>
    ELSE IF ~IsIpv4Addr(parts[2]) THEN << >>
    ELSE AnsSoaRecords(parts[1], parts[2],
                       Qualified(parts[3], "ns", parts[1]), TtlAt(parts, 4))

\* parse_anssoa(data): .fqdn:ip:x:ttl
parse_anssoa(data) == AnsSoaParts(split(data, ":"))

\* parse_ans: the NS record and the A record of the name server
AnsRecords(fqdn, ip, ns_fqdn, ttl) ==
    <<TinyDNSRecord("NS", ns_fqdn, fqdn, ttl),
      TinyDNSRecord("A", ns_fqdn, ip, ttl)>>

\* parse_ans, data split into parts
AnsParts(parts) ==
    IF Len(parts) < 3 THEN << >>
    ELSE IF ~IsIpv4Addr(parts[2]) THEN << >>
    ELSE AnsRecords(parts[1], parts[2],
                    Qualified(parts[3], "ns", parts[1]), TtlAt(parts, 4))

\* parse_ans(data): &fqdn:ip:x:ttl
parse_ans(data) == AnsParts(split(data, ":"))

\* parse_aptr: the A record and the PTR record of the reversed address
APtrRecords(fqdn, ip, ptr_fqdn, ttl) ==
    <<TinyDNSRecord("A", fqdn, ip, ttl),
      TinyDNSRecord("PTR", ptr_fqdn, fqdn, ttl)>>

\* parse_aptr, data split into parts
APtrParts(parts) ==
    IF Len(parts) < 2 THEN << >>
    ELSE IF ~IsIpv4Addr(parts[2]) THEN << >>
    ELSE APtrRecords(parts[1], parts[2],
                     join(reverse(split(parts[2], ".")), ".") \o ".in-addr.arpa",
                     TtlAt(parts, 3))

\* parse_aptr(data): =fqdn:ip:ttl
parse_aptr(data) == APtrParts(split(data, ":"))

\* Option: None and Some(x)
None == [some |-> FALSE, val |-> << >>]
Some(x) == [some |-> TRUE, val |-> x]

\* from_string returning Some(parsed) for an empty Vec too
NoneIfEmptyLenient(parsed) == [kind |-> "Some", val |-> parsed]

\* from_string: None for an empty Vec, Some(parsed) otherwise
NoneIfEmpty(parsed) ==
    IF parsed = << >> THEN [kind |-> "None", val |-> << >>]
    ELSE [kind |-> "Some", val |-> parsed]

\* from_string: the match on the prefix
MatchPrefix(prefix, data, right_now) ==
    IF prefix \in {"-", "#"} THEN [kind |-> "Some", val |-> << >>]
    ELSE NoneIfEmpty(
            CASE prefix = "+" -> parse("A", data)
              [] prefix = "^" -> parse("PTR", data)
              [] prefix = "C" -> parse("CNAME", data)
              [] prefix = "'" -> parse_txt(data)
              [] prefix = "@" -> parse_mx(data)
              [] prefix = "Z" -> parse_soa(data, right_now)
              [] prefix = "." -> parse_anssoa(data)
              [] prefix = "&" -> parse_ans(data)
              [] prefix = "=" -> parse_aptr(data)
              [] OTHER -> << >>)

\* from_string(line): Some(records), None, or the panic of split_at(1) on an
\* empty line
from_string(line, right_now) ==
    IF line = "" THEN [kind |-> "Panic", val |-> << >>]
    ELSE MatchPrefix(SubSeq(line, 1, 1), SubSeq(line, 2, Len(line)), right_now)

\* from_file: retval.append(&mut x) for the lines behind the one that gave v
Appended(v, rest) ==
    IF rest.kind # "Some" THEN rest
    ELSE [kind |-> "Some", val |-> v \o rest.val]

\* from_file: the loop over the lines, left at the first None
RECURSIVE ReadLines(_, _)
\* from_file going on behind a line for which from_string returned None
ReadFromSkip(r, lines, right_now) ==
    IF r.kind = "Panic" THEN r
    ELSE Appended(r.val, ReadLines(lines, right_now))

ReadFrom(r, lines, right_now) ==
    IF r.kind # "Some" THEN r
    ELSE Appended(r.val, ReadLines(lines, right_now))

ReadLines(lines, right_now) ==
    IF lines = << >> THEN [kind |-> "Some", val |-> << >>]
    ELSE ReadFrom(from_string(Head(lines), right_now), Tail(lines), right_now)

\* the characters of the model's lines in the order of their codes
Ascii ==
    " \"#&'+-.0123456789:=@ABCDEFGHIJKLMNOPQRSTUVWXYZ^_abcdefghijklmnopqrstuvwxyz"

\* String::cmp(a, b) == Less
RECURSIVE StrLess(_, _)
StrLess(a, b) ==
    IF b = "" THEN FALSE
    ELSE IF a = "" THEN TRUE
    ELSE IF Char(a, 1) = Char(b, 1)
         THEN StrLess(SubSeq(a, 2, Len(a)), SubSeq(b, 2, Len(b)))
    ELSE IndexIn(Char(a, 1), Ascii) < IndexIn(Char(b, 1), Ascii)

\* x put into the sorted s behind the records whose fqdn is not greater
RECURSIVE InsertByFqdn(_, _)
InsertByFqdn(x, s) ==
    IF s = << >> THEN <<x>>
    ELSE IF StrLess(x.fqdn, Head(s).fqdn) THEN <<x>> \o s
    ELSE <<Head(s)>> \o InsertByFqdn(x, Tail(s))

\* Vec<TinyDNSRecord>::sort: stable, by Ord for TinyDNSRecord (the fqdn)
RECURSIVE sort(_)
sort(v) ==
    IF v = << >> THEN << >>
    ELSE InsertByFqdn(v[Len(v)], sort(SubSeq(v, 1, Len(v) - 1)))

\* PartialEq for TinyDNSRecord: the ttl is not compared
TdrEq(a, b) == a.rtype = b.rtype /\ a.fqdn = b.fqdn /\ a.target = b.target

\* Vec::dedup: x behind the deduplicated d
DedupPush(d, x) == IF TdrEq(d[Len(d)], x) THEN d ELSE Append(d, x)

\* Vec<TinyDNSRecord>::dedup: of consecutive equal records the first stays
RECURSIVE dedup(_)
dedup(v) ==
    IF Len(v) <= 1 THEN v
    ELSE DedupPush(dedup(SubSeq(v, 1, Len(v) - 1)), v[Len(v)])

\* from_file: sort and dedup of what the loop returned
SortDedup(r) ==
    IF r.kind = "Some" THEN [kind |-> "Some", val |-> dedup(sort(r.val))]
    ELSE r

\* from_file(fname) for a file that opens and holds the given lines
from_file(lines, right_now) == SortDedup(ReadLines(lines, right_now))

(***************************************************************************)
(* Zone attachment and the keyed index: tinydns/mod.rs, resource.rs.       *)
(***************************************************************************)
\* lib.rs: struct R53Zone
R53Zone(name, domain, id) == [name |-> name, domain |-> domain, id |-> id]

\* find_zone_id: the loop over the zones, match_tuple being mt
RECURSIVE FindZone(_, _, _)
FindZone(fqdn, zs, mt) ==
    IF zs = << >> THEN mt[2]
    ELSE FindZone(fqdn, Tail(zs),
            IF contains(fqdn, Head(zs).domain)
               /\ Len(Head(zs).domain) > Len(mt[1])
            THEN <<Head(zs).domain, Some(Head(zs).id)>>
            ELSE mt)

\* TinyDNSRecord::find_zone_id(&self, zones)
find_zone_id(rec, zs) == FindZone(rec.fqdn, zs, <<"X", None>>)

\* vec_from_tiny: one turn of the loop, zone_id what find_zone_id returned
Converted(acc, rec, zone_id) ==
    IF zone_id.some
    THEN [retval |-> Append(acc.retval,
                        [zone_id |-> zone_id.val, name |-> rec.fqdn,
                         rtype |-> rec.rtype, records |-> <<rec.target>>,
                         ttl |-> rec.ttl]),
          error_flag |-> acc.error_flag]
    ELSE [retval |-> acc.retval, error_flag |-> TRUE]

\* vec_from_tiny: the loop, acc holding retval and error_flag
RECURSIVE ConvertAll(_, _, _)
ConvertAll(recs, zs, acc) ==
    IF recs = << >> THEN acc
    ELSE ConvertAll(Tail(recs), zs,
            Converted(acc, Head(recs), find_zone_id(Head(recs), zs)))

\* vec_from_tiny: None when the flag is set
NoneIfFlag(r, val) == IF r.error_flag THEN None ELSE Some(val)

\* resource::vec_from_tiny(records, zones)
VecOf(r) == NoneIfFlag(r, r.retval)

vec_from_tiny(recs, zs) ==
    VecOf(ConvertAll(recs, zs, [retval |-> << >>, error_flag |-> FALSE]))

\* Resource::merge(&mut self, other): the success flag and self afterwards
merge(self, other) ==
    IF self.rtype # other.rtype THEN [ok |-> FALSE, self |-> self]
    ELSE [ok |-> TRUE,
          self |-> [self EXCEPT !.records = other.records \o self.records]]

\* build_reshash: rec stored under key, m the merge with the record found
Indexed(acc, rec, key, hit, m) ==
    [hash |-> [k \in DOMAIN acc.hash \cup {key} |->
                  IF k # key THEN acc.hash[k]
                  ELSE IF hit /\ rec.rtype # "PTR" THEN m.self ELSE rec],
     error_flag |-> acc.error_flag \/ (hit /\ (rec.rtype = "PTR" \/ ~m.ok))]

\* build_reshash: one turn of the loop
IndexOne(acc, rec, key) ==
    Indexed(acc, rec, key, key \in DOMAIN acc.hash,
            IF key \in DOMAIN acc.hash THEN merge(rec, acc.hash[key])
            ELSE [ok |-> TRUE, self |-> rec])

\* build_reshash: the loop, acc holding hash and error_flag
RECURSIVE IndexAll(_, _)
IndexAll(recs, acc) ==
    IF recs = << >> THEN acc
    ELSE IndexAll(Tail(recs),
            IndexOne(acc, Head(recs),
                     record_name(Head(recs).rtype, Head(recs).name)))

\* build_reshash that lets every collision pass
build_reshash_lenient(recs) ==
    Some(IndexAll(recs, [hash |-> EmptyHash, error_flag |-> FALSE]).hash)

HashOf(r) == NoneIfFlag(r, r.hash)

\* resource::build_reshash(records)
build_reshash(recs) ==
    HashOf(IndexAll(recs, [hash |-> EmptyHash, error_flag |-> FALSE]))

(***************************************************************************)
(* Init: the state before main runs.                                       *)
(***************************************************************************)
\* load_local has not run
LocalUnset ==
    /\ tdns_records = << >> /\ converted = << >>
    /\ error_flag = FALSE /\ failed_at = ""

\* no input file is followed line by line
NoLines == mode = "file" /\ files = << >> /\ zones = << >>

Unset ==
    /\ LocalUnset
    /\ local_recs = EmptyHash /\ st = EmptyHash /\ state_recs = EmptyHash
    /\ remote_recs = EmptyHash /\ new0 = EmptyHash /\ upd0 = EmptyHash
    /\ new_recs = EmptyHash /\ upd_recs = EmptyHash /\ del_recs = EmptyHash
    /\ by_zone = EmptyHash /\ zoneid = NoZone
    /\ batches = << >> /\ retval = "none" /\ put_ret = "none"
    /\ save_ret = "none" /\ writes = {}

Init ==
    /\ sub \in {"lint", "noop", "execute"}
    /\ \E cf \in {<<"local", "foo">>, <<"local", "state.json">>,
                  <<"s3", "state.json">>} :
          /\ backend = cf[1]
          /\ filename = cf[2]
    /\ client \in {"Some", "None"}
    /\ input \in ResHashes
    /\ remote \in ResHashes
    /\ \E stored \in {Stored(h) : h \in ResHashes} \cup {NoFile} :
          /\ fs = [f \in FileNames |->
                     IF backend = "local" /\ f = filename THEN stored ELSE NoFile]
          /\ s3obj = IF backend = "s3" THEN stored ELSE NoFile
    /\ pc = "start"
    /\ records = << >>
    /\ NoLines
    /\ Unset

(***************************************************************************)
(* main: main.rs.                                                          *)
(***************************************************************************)
\* load_local: Some(local) or None, then exit(1)
LoadLocal ==
    /\ pc = "start"
    /\ \/ /\ local_recs' = input
          /\ pc' = "local"
       \/ /\ pc' = "exit1"
          /\ UNCHANGED local_recs
    /\ UNCHANGED <<lvars, sub, backend, filename, client, input, fs, s3obj, remote, st,
                   state_recs, remote_recs, new0, upd0, new_recs, upd_recs,
                   del_recs, by_zone, zoneid, records, batches, retval,
                   put_ret, save_ret,
                   writes>>

\* if sub == 0 { return; }
LintReturn ==
    /\ pc = "local"
    /\ sub = "lint"
    /\ pc' = "exit0"
    /\ UNCHANGED <<lvars, sub, backend, filename, client, input, fs, s3obj, remote,
                   local_recs, st, state_recs, remote_recs, new0, upd0,
                   new_recs, upd_recs, del_recs, by_zone, zoneid, records,
                   batches, retval, put_ret, save_ret,
                   writes>>

\* state::load_state: load_local_state or s3::fetch_state_file
LoadState ==
    /\ pc = "local"
    /\ sub # "lint"
    /\ \/ /\ backend = "local"
          /\ fs[filename].exists
          /\ st' = fs[filename].records
          /\ pc' = "state"
       \/ /\ backend = "local"
          /\ ~fs[filename].exists
          /\ st' = st
          /\ pc' = "exit1"
       \/ /\ backend = "s3"
          /\ s3obj.exists
          /\ st' = s3obj.records
          /\ pc' = "state"
       \/ /\ backend = "s3"
          /\ ~s3obj.exists
          /\ st' = EmptyHash
          /\ pc' = "state"
       \/ /\ backend = "s3"
          /\ st' = st
          /\ pc' = "exit1"
    /\ state_recs' = st'
    /\ UNCHANGED <<lvars, sub, backend, filename, client, input, fs, s3obj, remote,
                   local_recs, remote_recs, new0, upd0, new_recs, upd_recs,
                   del_recs, by_zone, zoneid, records, batches, retval,
                   put_ret, save_ret,
                   writes>>

\* load_remote
LoadRemote ==
    /\ pc = "state"
    /\ \E fetched \in SUBSET Zones :
          /\ client = "None" => fetched = {}
          /\ remote_recs' = load_remote(remote, fetched)
    /\ pc' = "remote"
    /\ UNCHANGED <<lvars, sub, backend, filename, client, input, fs, s3obj, remote,
                   local_recs, st, state_recs, new0, upd0, new_recs, upd_recs,
                   del_recs, by_zone, zoneid, records, batches, retval,
                   put_ret, save_ret,
                   writes>>

\* compare::state_remote(&mut state_recs, &remote_recs)
StateRemote ==
    /\ pc = "remote"
    /\ state_recs' = state_remote(state_recs, remote_recs)
    /\ pc' = "reconciled"
    /\ UNCHANGED <<lvars, sub, backend, filename, client, input, fs, s3obj, remote,
                   local_recs, st, remote_recs, new0, upd0, new_recs, upd_recs,
                   del_recs, by_zone, zoneid, records, batches, retval,
                   put_ret, save_ret,
                   writes>>

\* compare::local_state(&local_recs, &state_recs)
LocalState ==
    /\ pc = "reconciled"
    /\ \E x \in AllResources :
          LET r == local_state(local_recs, state_recs, x)
          IN  /\ new0' = r.n
              /\ upd0' = r.u
              /\ del_recs' = r.d
    /\ new_recs' = new0'
    /\ upd_recs' = upd0'
    /\ pc' = "diffed"
    /\ UNCHANGED <<lvars, sub, backend, filename, client, input, fs, s3obj, remote,
                   local_recs, st, state_recs, remote_recs, by_zone, zoneid,
                   records, batches, retval, put_ret, save_ret,
                   writes>>

\* compare::new_remote(&mut new_recs, &mut upd_recs, &remote_recs)
NewRemote ==
    /\ pc = "diffed"
    /\ LET r == new_remote(new_recs, upd_recs, remote_recs)
       IN  /\ new_recs' = r.ne
           /\ upd_recs' = r.up
    /\ pc' = "compared"
    /\ UNCHANGED <<lvars, sub, backend, filename, client, input, fs, s3obj, remote,
                   local_recs, st, state_recs, remote_recs, new0, upd0,
                   del_recs, by_zone, zoneid, records, batches, retval,
                   put_ret, save_ret,
                   writes>>

\* if sub != 2 { return; }
NoopReturn ==
    /\ pc = "compared"
    /\ sub # "execute"
    /\ pc' = "exit0"
    /\ UNCHANGED <<lvars, sub, backend, filename, client, input, fs, s3obj, remote,
                   local_recs, st, state_recs, remote_recs, new0, upd0,
                   new_recs, upd_recs, del_recs, by_zone, zoneid, records,
                   batches, retval, put_ret, save_ret,
                   writes>>

\* push_remote entered whatever the subcommand
PushRemoteAnySub ==
    /\ pc = "compared"
    /\ by_zone' \in ByZones(new_recs, upd_recs, del_recs)
    /\ retval' = "true"
    /\ pc' = "by_zone"
    /\ UNCHANGED <<lvars, sub, backend, filename, client, input, fs, s3obj, remote,
                   local_recs, st, state_recs, remote_recs, new0, upd0,
                   new_recs, upd_recs, del_recs, zoneid, records, batches,
                   put_ret, save_ret,
                   writes>>

\* push_remote: the changes of to_push separated by zone
PushRemote ==
    /\ pc = "compared"
    /\ sub = "execute"
    /\ by_zone' \in ByZones(new_recs, upd_recs, del_recs)
    /\ retval' = "true"
    /\ pc' = "by_zone"
    /\ UNCHANGED <<lvars, sub, backend, filename, client, input, fs, s3obj, remote,
                   local_recs, st, state_recs, remote_recs, new0, upd0,
                   new_recs, upd_recs, del_recs, zoneid, records, batches,
                   put_ret, save_ret,
                   writes>>

\* push_remote: for (zoneid, chgvec) in by_zone { bulk_put(..) }
PushZone ==
    /\ pc = "by_zone"
    /\ \E z \in DOMAIN by_zone :
          /\ zoneid' = z
          /\ records' = by_zone[z]
          /\ by_zone' = Restrict(by_zone, DOMAIN by_zone \ {z})
    /\ pc' = "bulk_put"
    /\ UNCHANGED <<lvars, sub, backend, filename, client, input, fs, s3obj, remote,
                   local_recs, st, state_recs, remote_recs, new0, upd0,
                   new_recs, upd_recs, del_recs, batches, retval, put_ret,
                   save_ret,
                   writes>>

\* bulk_put: build_client returns None, Err before any batch is submitted
BulkPutNoClient ==
    /\ pc = "bulk_put"
    /\ client = "None"
    /\ pc' = "bulk_put_ret"
    /\ put_ret' = "Err"
    /\ UNCHANGED <<lvars, sub, backend, filename, client, input, fs, s3obj, remote,
                   local_recs, st, state_recs, remote_recs, new0, upd0,
                   new_recs, upd_recs, del_recs, by_zone, zoneid, records,
                   batches, retval, save_ret, writes>>

\* bulk_put: one iteration of the loop, the provider accepting the batch
BulkPutOk ==
    /\ pc = "bulk_put"
    /\ client = "Some"
    /\ Len(batches) < MaxBatches
    /\ LET it == bulk_put_iter(records)
       IN  /\ records' = it.rest
           /\ batches' = Append(batches,
                  [zone |-> zoneid, changes |-> it.chunk, ok |-> TRUE])
           /\ remote' = ApplyBatch(remote, zoneid, it.chunk)
    /\ IF records' = << >>
       THEN pc' = "bulk_put_ret" /\ put_ret' = "Ok"
       ELSE pc' = "bulk_put" /\ put_ret' = put_ret
    /\ UNCHANGED <<lvars, sub, backend, filename, client, input, fs, s3obj, local_recs, st,
                   state_recs, remote_recs, new0, upd0, new_recs, upd_recs,
                   del_recs, by_zone, zoneid, retval, save_ret,
                   writes>>

\* bulk_put: one iteration of the loop, the provider rejecting the batch
BulkPutErr ==
    /\ pc = "bulk_put"
    /\ client = "Some"
    /\ Len(batches) < MaxBatches
    /\ LET it == bulk_put_iter(records)
       IN  /\ records' = it.rest
           /\ batches' = Append(batches,
                  [zone |-> zoneid, changes |-> it.chunk, ok |-> FALSE])
    /\ pc' = "bulk_put_ret"
    /\ put_ret' = "Err"
    /\ UNCHANGED <<lvars, sub, backend, filename, client, input, fs, s3obj, remote,
                   local_recs, st, state_recs, remote_recs, new0, upd0,
                   new_recs, upd_recs, del_recs, by_zone, zoneid, retval,
                   save_ret,
                   writes>>

\* push_remote that leaves retval alone on Err
PushResultKeep ==
    /\ pc = "bulk_put_ret"
    /\ retval' = retval
    /\ put_ret' = "none"
    /\ zoneid' = NoZone
    /\ records' = << >>
    /\ pc' = "by_zone"
    /\ UNCHANGED <<lvars, sub, backend, filename, client, input, fs, s3obj, remote,
                   local_recs, st, state_recs, remote_recs, new0, upd0,
                   new_recs, upd_recs, del_recs, by_zone, batches, save_ret,
                   writes>>

\* push_remote: match r53::bulk_put(..) { Ok(x) => .., Err(e) => retval = false }
PushResult ==
    /\ pc = "bulk_put_ret"
    /\ retval' = IF put_ret = "Err" THEN "false" ELSE retval
    /\ put_ret' = "none"
    /\ zoneid' = NoZone
    /\ records' = << >>
    /\ pc' = "by_zone"
    /\ UNCHANGED <<lvars, sub, backend, filename, client, input, fs, s3obj, remote,
                   local_recs, st, state_recs, remote_recs, new0, upd0,
                   new_recs, upd_recs, del_recs, by_zone, batches, save_ret,
                   writes>>

\* match push_remote(..) { false => exit(1) }
PushFailed ==
    /\ pc = "by_zone"
    /\ DOMAIN by_zone = {}
    /\ retval = "false"
    /\ pc' = "exit1"
    /\ UNCHANGED <<lvars, sub, backend, filename, client, input, fs, s3obj, remote,
                   local_recs, st, state_recs, remote_recs, new0, upd0,
                   new_recs, upd_recs, del_recs, by_zone, zoneid, records,
                   batches, retval, put_ret, save_ret,
                   writes>>

\* match push_remote(..) { true => .. }; state::save_state(&config, local_recs)
SaveState ==
    /\ pc = "by_zone"
    /\ DOMAIN by_zone = {}
    /\ retval = "true"
    /\ \/ /\ backend = "local"
          /\ fs' = [fs EXCEPT ![SaveLocation] = Stored(local_recs)]
          /\ s3obj' = s3obj
          /\ writes' = writes \cup {SaveLocation}
          /\ save_ret' = "true"
       \/ /\ backend = "s3"
          /\ s3obj' = Stored(local_recs)
          /\ fs' = fs
          /\ writes' = writes \cup {SaveLocation}
          /\ save_ret' = "true"
       \/ /\ save_ret' = "false"
          /\ UNCHANGED <<fs, s3obj, writes>>
    /\ pc' = "exit0"
    /\ UNCHANGED <<lvars, sub, backend, filename, client, input, remote, local_recs, st,
                   state_recs, remote_recs, new0, upd0, new_recs, upd_recs,
                   del_recs, by_zone, zoneid, records, batches, retval,
                   put_ret>>

Next ==
    \/ LoadLocal
    \/ LintReturn
    \/ LoadState
    \/ LoadRemote
    \/ StateRemote
    \/ LocalState
    \/ NewRemote
    \/ NoopReturn
    \/ PushRemote
    \/ PushZone
    \/ BulkPutNoClient
    \/ BulkPutOk
    \/ BulkPutErr
    \/ PushResult
    \/ PushFailed
    \/ SaveState

Spec == Init /\ [][Next]_vars

(***************************************************************************)
(* load_local followed call by call: main.rs, with the rest of main.       *)
(***************************************************************************)
\* the longest input file
MaxLines == 2
\* the most *.tiny files of an input directory
MaxFiles == 2

\* the lines input files are made of
Lines ==
    {"+h1.bc:1.1.1.1", "+H1.bc.:2.2.2.2:60", "=h2.bc:1.1.1.1",
     "=h3.bc:1.1.1.1", "+h4.zz:1.1.1.1", "Cw.c:h1.bc", "?junk", "#comment",
     ""}

\* the lines of the files of an input directory
DirLines == {"+h1.bc:1.1.1.1", "+h1.bc:2.2.2.2", "?junk"}

\* the sequences of at most n elements of S
SeqsUpTo(S, n) == UNION {[1..m -> S] : m \in 0..n}

\* the zone tables of the configurations
ZoneTables ==
    {<< >>,
     <<R53Zone("bc", "bc", "Z1"), R53Zone("arpa", "in-addr.arpa", "Z2")>>,
     <<R53Zone("c", "c", "Z3"), R53Zone("bc", "bc", "Z1"),
       R53Zone("arpa", "in-addr.arpa", "Z2")>>,
     <<R53Zone("b", ".b", "Z4"), R53Zone("bc", "bc", "Z1"),
       R53Zone("arpa", "in-addr.arpa", "Z2")>>}

\* SystemTime::now(), in seconds since the epoch
Nows == {"1700000000", "1700000001"}

InitLocal ==
    /\ sub \in {"lint", "noop", "execute"}
    /\ backend = "s3" /\ filename = "state.json"
    /\ client \in {"Some", "None"}
    /\ input = EmptyHash /\ remote = EmptyHash
    /\ fs = [f \in FileNames |-> NoFile] /\ s3obj = NoFile
    /\ \/ mode = "file" /\ \E f \in SeqsUpTo(Lines, MaxLines) : files = <<f>>
       \/ mode = "dir" /\ files \in SeqsUpTo(SeqsUpTo(DirLines, 1), MaxFiles)
    /\ zones \in ZoneTables
    /\ pc = "load_local"
    /\ records = << >>
    /\ Unset

\* load_local: metadata(&fname) fails, exit(1)
MetadataErr ==
    /\ pc = "load_local"
    /\ pc' = "exit1"
    /\ UNCHANGED <<lvars, sub, backend, filename, client, input, fs, s3obj,
                   remote, local_recs, st, state_recs, remote_recs, new0,
                   upd0, new_recs, upd_recs, del_recs, by_zone, zoneid,
                   records, batches, retval, put_ret, save_ret, writes>>

\* load_local: the match on what from_file returned
FromFileRet(r) ==
    /\ tdns_records' = r.val
    /\ failed_at' = IF r.kind = "None" THEN "from_file" ELSE ""
    /\ pc' = CASE r.kind = "Some" -> "tdns"
               [] r.kind = "None" -> "exit1"
               [] r.kind = "Panic" -> "panic"

\* load_local, meta.is_file(): tinydns::from_file(&fname), the file read or
\* File::open failing
FromFile ==
    /\ pc = "load_local"
    /\ mode = "file"
    /\ \/ \E right_now \in Nows : FromFileRet(from_file(files[1], right_now))
       \/ /\ tdns_records' = << >>
          /\ failed_at' = "from_file"
          /\ pc' = "exit1"
    /\ UNCHANGED <<mode, files, zones, converted, error_flag, sub, backend,
                   filename, client, input, fs, s3obj, remote, local_recs, st,
                   state_recs, remote_recs, new0, upd0, new_recs, upd_recs,
                   del_recs, by_zone, zoneid, records, batches, retval,
                   put_ret, save_ret, writes>>

\* load_local, directory: the loop over the *.tiny files, acc holding
\* tdns_vec, error_flag and whether a line made from_string panic
RECURSIVE ReadDir(_, _, _)
ReadDirFrom(r, fls, right_now, acc) ==
    IF r.kind = "Panic" THEN [acc EXCEPT !.panic = TRUE]
    ELSE ReadDir(fls, right_now,
            IF r.kind = "None" THEN [acc EXCEPT !.error_flag = TRUE]
            ELSE [acc EXCEPT !.tdns_vec = acc.tdns_vec \o r.val])

ReadDir(fls, right_now, acc) ==
    IF fls = << >> THEN acc
    ELSE ReadDirFrom(from_file(Head(fls), right_now), Tail(fls), right_now, acc)

\* load_local, directory: what the loop left
FromDirRet(r) ==
    /\ tdns_records' = r.tdns_vec
    /\ error_flag' = r.error_flag
    /\ pc' = IF r.panic THEN "panic" ELSE "tdns"

\* load_local, directory: read_dir and tinydns::from_file of every file
FromDir ==
    /\ pc = "load_local"
    /\ mode = "dir"
    /\ \/ \E right_now \in Nows, entry_err \in BOOLEAN :
             FromDirRet(ReadDir(files, right_now,
                           [tdns_vec |-> << >>, error_flag |-> entry_err,
                            panic |-> FALSE]))
       \/ /\ UNCHANGED <<tdns_records, error_flag>>
          /\ pc' = "exit1"
    /\ UNCHANGED <<mode, files, zones, converted, failed_at, sub, backend,
                   filename, client, input, fs, s3obj, remote, local_recs, st,
                   state_recs, remote_recs, new0, upd0, new_recs, upd_recs,
                   del_recs, by_zone, zoneid, records, batches, retval,
                   put_ret, save_ret, writes>>

\* load_local: the match on what vec_from_tiny returned
VecFromTinyRet(r) ==
    /\ converted' = r.val
    /\ failed_at' = IF r.some THEN "" ELSE "vec_from_tiny"
    /\ pc' = IF r.some THEN "converted" ELSE "exit1"

\* load_local: resource::vec_from_tiny(&tdns_records, &config.zones)
VecFromTiny ==
    /\ pc = "tdns"
    /\ VecFromTinyRet(vec_from_tiny(tdns_records, zones))
    /\ UNCHANGED <<mode, files, zones, tdns_records, error_flag, sub, backend,
                   filename, client, input, fs, s3obj, remote, local_recs, st,
                   state_recs, remote_recs, new0, upd0, new_recs, upd_recs,
                   del_recs, by_zone, zoneid, records, batches, retval,
                   put_ret, save_ret, writes>>

\* load_local that goes on with what the index holds when the build failed
BuildReshashGoOn ==
    /\ pc = "converted"
    /\ local_recs' = build_reshash_lenient(converted).val
    /\ failed_at' = IF build_reshash(converted).some THEN "" ELSE "build_reshash"
    /\ pc' = "local"
    /\ UNCHANGED <<mode, files, zones, tdns_records, converted, error_flag,
                   sub, backend, filename, client, input, fs, s3obj, remote,
                   st, state_recs, remote_recs, new0, upd0, new_recs,
                   upd_recs, del_recs, by_zone, zoneid, records, batches,
                   retval, put_ret, save_ret, writes>>

\* load_local: the match on what build_reshash returned, the return of
\* load_local and main's match on it
BuildReshashRet(r) ==
    /\ local_recs' = IF r.some /\ ~error_flag THEN r.val ELSE local_recs
    /\ failed_at' = IF r.some THEN (IF error_flag THEN "from_file" ELSE "")
                     ELSE "build_reshash"
    /\ pc' = IF r.some /\ ~error_flag THEN "local" ELSE "exit1"

\* load_local: resource::build_reshash(converted)
BuildReshash ==
    /\ pc = "converted"
    /\ BuildReshashRet(build_reshash(converted))
    /\ UNCHANGED <<mode, files, zones, tdns_records, converted, error_flag,
                   sub, backend, filename, client, input, fs, s3obj, remote,
                   st, state_recs, remote_recs, new0, upd0, new_recs,
                   upd_recs, del_recs, by_zone, zoneid, records, batches,
                   retval, put_ret, save_ret, writes>>

NextLocal ==
    \/ MetadataErr
    \/ FromFile
    \/ FromDir
    \/ VecFromTiny
    \/ BuildReshash
    \/ LintReturn
    \/ LoadState
    \/ LoadRemote
    \/ StateRemote
    \/ LocalState
    \/ NewRemote
    \/ NoopReturn
    \/ PushRemote
    \/ PushZone
    \/ BulkPutNoClient
    \/ BulkPutOk
    \/ BulkPutErr
    \/ PushResult
    \/ PushFailed
    \/ SaveState

SpecLocal == InitLocal /\ [][NextLocal]_vars

(***************************************************************************)
(* bulk_put on its own, for a queue of n changes of one zone.              *)
(***************************************************************************)
\* the i-th change of the queue
ChangeNo(i) ==
    resource_to_change("CREATE",
        [zone_id |-> "Z1", name |-> ToString(i), rtype |-> "A",
         records |-> <<1>>, ttl |-> DefaultTtl])

InitPut ==
    /\ sub = "execute" /\ backend = "s3" /\ filename = "state.json"
    /\ client \in {"Some", "None"}
    /\ input = EmptyHash /\ remote = EmptyHash
    /\ fs = [f \in FileNames |-> NoFile] /\ s3obj = NoFile
    /\ NoLines
    /\ Unset
    /\ pc = "bulk_put"
    /\ \E n \in 1..MaxChanges : records = [i \in 1..n |-> ChangeNo(i)]

NextPut == BulkPutNoClient \/ BulkPutOk \/ BulkPutErr

SpecPut == InitPut /\ [][NextPut]_vars

(***************************************************************************)
(* from_file on its own, for a file of lines of every directive.           *)
(***************************************************************************)
\* the lines of the parsed files: well-formed and malformed directives,
\* comments, an unknown prefix and the empty line
ParseLines ==
    {"+h1.bc:1.1.1.1", "+h1.bc:1.1.1.1:60", "+a0.bc:2.2.2.2", "+h5.bc:1.1.1",
     "+h5.bc", "=h2.bc:1.1.1.1", "Cw.c:h1.bc", "'t.bc:\"v=1\"",
     "'t.bc:\"open", ".bc::a", ".bc:3.3.3.3:a", "#comment", "-h1.bc:1.1.1.1",
     "?junk", ""}

InitParse ==
    /\ sub = "lint"
    /\ backend = "s3" /\ filename = "state.json"
    /\ client = "Some"
    /\ input = EmptyHash /\ remote = EmptyHash
    /\ fs = [f \in FileNames |-> NoFile] /\ s3obj = NoFile
    /\ mode = "file" /\ \E f \in SeqsUpTo(ParseLines, MaxLines) : files = <<f>>
    /\ zones = << >>
    /\ pc = "load_local"
    /\ records = << >>
    /\ Unset

NextParse == FromFile

SpecParse == InitParse /\ [][NextParse]_vars

(***************************************************************************)
(* The claims.                                                             *)
(***************************************************************************)
\* the number of occurrences of v in the sequence s
Occ(s, v) == Cardinality({i \in 1..Len(s) : s[i] = v})

\* Resource equality as specified: every field coincides, the values as
\* multisets
Equal(a, b) ==
    /\ a.zone_id = b.zone_id
    /\ a.name = b.name
    /\ a.rtype = b.rtype
    /\ a.ttl = b.ttl
    /\ Len(a.records) = Len(b.records)
    /\ \A i \in 1..Len(a.records) :
          Occ(a.records, a.records[i]) = Occ(b.records, a.records[i])

Disjoint(A, B) == A \cap B = {}

\* C1: after local_state, updated holds exactly the keys present in both
\* local and state whose resources are not equal, and each of them maps to
\* local's resource.
C1_UpdatedIsLocal ==
    pc = "diffed" =>
        /\ DOMAIN upd0 =
              {k \in DOMAIN local_recs \cap DOMAIN state_recs :
                  ~Equal(local_recs[k], state_recs[k])}
        /\ \A k \in DOMAIN upd0 : upd0[k] = local_recs[k]

\* the provider after the change set has been applied with success: CREATE
\* and UPSERT set remote[k] to the pushed resource, DELETE removes remote[k]
Applied(re, ne, up, de) ==
    [k \in (DOMAIN re \cup DOMAIN ne \cup DOMAIN up) \ DOMAIN de |->
        IF k \in DOMAIN ne THEN ne[k]
        ELSE IF k \in DOMAIN up THEN up[k] ELSE re[k]]

\* the next run finds nothing to do: state is the saved local, remote is re
RerunEmpty(lo, re) ==
    \A x \in AllResources :
        LET s2 == state_remote(lo, re)
            d == local_state(lo, s2, x)
            r == new_remote(d.n, d.u, re)
        IN  r.ne = EmptyHash /\ r.up = EmptyHash /\ d.d = EmptyHash

\* C2: once an execute run has applied its change set and saved local as the
\* state, a second run over the same local finds new, updated and deleted
\* empty.
C2_Idempotent ==
    (pc = "compared" /\ sub = "execute" /\ remote_recs = remote) =>
        RerunEmpty(local_recs,
                   Applied(remote, new_recs, upd_recs, del_recs))

\* C3: state_remote leaves in state exactly the keys it shares with remote,
\* each equal to remote's resource; it inserts no key and leaves remote alone.
C3_StateRemote ==
    [][pc = "remote" =>
        /\ DOMAIN state_recs' = DOMAIN state_recs \cap DOMAIN remote_recs
        /\ \A k \in DOMAIN state_recs' : Equal(state_recs'[k], remote_recs[k])
        /\ remote_recs' = remote_recs]_vars

\* C3 witness: a drifted key has been overwritten and a key missing from
\* remote removed.
C3_Witness ==
    /\ pc = "reconciled"
    /\ \E k \in DOMAIN state_recs : state_recs[k] # st[k]
    /\ \E k \in DOMAIN st : k \notin DOMAIN remote_recs

\* C4: after local_state, new is local restricted to the keys absent from
\* state and deleted is state restricted to the keys absent from local.
C4_NewAndDeleted ==
    pc = "diffed" =>
        /\ new0 = Restrict(local_recs, DOMAIN local_recs \ DOMAIN state_recs)
        /\ del_recs = Restrict(state_recs, DOMAIN state_recs \ DOMAIN local_recs)

\* C5: after state_remote, local_state and new_remote the key sets of new,
\* updated and deleted are pairwise disjoint.
C5_Disjoint ==
    pc = "compared" =>
        /\ Disjoint(DOMAIN new_recs, DOMAIN upd_recs)
        /\ Disjoint(DOMAIN new_recs, DOMAIN del_recs)
        /\ Disjoint(DOMAIN upd_recs, DOMAIN del_recs)

\* C5 witness: the comparator has run, a new record was moved to updated and
\* another record is to be deleted.
C5_Witness ==
    /\ pc = "compared"
    /\ \E k \in DOMAIN upd_recs : k \in DOMAIN new0
    /\ del_recs # EmptyHash

\* C6: new_remote drops from new every key whose record is identical at
\* remote, moves to updated every key whose record differs at remote, keeps
\* the keys absent from remote and leaves the earlier entries of updated.
C6_NewRemote ==
    [][pc = "diffed" =>
        /\ \A k \in DOMAIN new_recs :
              /\ (k \in DOMAIN remote_recs /\ Equal(new_recs[k], remote_recs[k]))
                    => (k \notin DOMAIN new_recs' /\ k \notin DOMAIN upd_recs')
              /\ (k \in DOMAIN remote_recs /\ ~Equal(new_recs[k], remote_recs[k]))
                    => /\ k \notin DOMAIN new_recs'
                       /\ k \in DOMAIN upd_recs'
                       /\ upd_recs'[k] = new_recs[k]
              /\ k \notin DOMAIN remote_recs
                    => (k \in DOMAIN new_recs' /\ new_recs'[k] = new_recs[k])
        /\ \A k \in DOMAIN upd_recs :
              k \in DOMAIN upd_recs' /\ upd_recs'[k] = upd_recs[k]
        /\ DOMAIN new_recs' \subseteq DOMAIN new_recs
        /\ DOMAIN upd_recs' \subseteq DOMAIN upd_recs \cup DOMAIN new_recs]_vars

\* C6 witness: new_remote has dropped one key of new and moved another.
C6_Witness ==
    /\ pc = "compared"
    /\ \E k \in DOMAIN new0 \cap DOMAIN remote_recs :
          Equal(new0[k], remote_recs[k]) /\ k \notin DOMAIN upd_recs
    /\ \E k \in DOMAIN new0 \cap DOMAIN remote_recs :
          ~Equal(new0[k], remote_recs[k]) /\ k \in DOMAIN upd_recs

\* C7: resources that differ only in the order of their values are equal,
\* and local_state makes no entry for a key whose local and state resources
\* are equal in this sense.
C7_PermutationEqual ==
    /\ \A a, b \in AllResources : Equal(a, b) => ResEq(a, b)
    /\ pc = "diffed" =>
          \A k \in DOMAIN local_recs \cap DOMAIN state_recs :
              Equal(local_recs[k], state_recs[k]) =>
                  k \notin DOMAIN new0 \cup DOMAIN upd0 \cup DOMAIN del_recs

\* C7 witness: local_state has compared a local and a state resource whose
\* values are the same in another order.
C7_Witness ==
    /\ pc = "diffed"
    /\ \E k \in DOMAIN local_recs \cap DOMAIN state_recs :
          /\ local_recs[k].records # state_recs[k].records
          /\ Equal(local_recs[k], state_recs[k])

\* C8: every ChangeBatch submitted to the provider holds at most 100 changes.
C8_BatchBound ==
    \A i \in 1..Len(batches) : Len(batches[i].changes) <= BatchLimit

\* C10: at the end of an execute run the state store holds a state written
\* by this run if and only if push_remote returned true (and the store took
\* the write), and the records written are local's.
C10_StateWritten ==
    (sub = "execute" /\ pc \in {"exit0", "exit1"}) =>
        /\ (LoadLocation \in writes) <=>
              (retval = "true" /\ save_ret = "true")
        /\ LoadLocation \in writes =>
              (IF backend = "local" THEN fs[filename] ELSE s3obj)
                 = Stored(local_recs)

\* push_remote has run its loop over by_zone to the end and returns retval
PushReturns == pc = "by_zone" /\ DOMAIN by_zone = {}

\* the zones push_remote has changes for
PushedZones ==
    {ResOf(e, new_recs, upd_recs, del_recs).zone_id :
        e \in ToPush(new_recs, upd_recs, del_recs)}

\* the batches submitted for zone z, in order
BatchesOf(z) == SelectSeq(batches, LAMBDA b : b.zone = z)

Orphans ==
    {k \in DOMAIN remote_recs : k \notin DOMAIN st /\ k \notin DOMAIN local_recs}

\* C12: once state and remote are loaded, an orphan key is a key of none of
\* new, updated and deleted, before and after new_remote, and no CREATE,
\* UPSERT or DELETE entry of to_push is made for it.
C12_OrphansUntouched ==
    pc \notin {"start", "local", "state"} =>
        \A k \in Orphans :
           /\ k \notin DOMAIN new0 \cup DOMAIN upd0
           /\ k \notin DOMAIN new_recs \cup DOMAIN upd_recs \cup DOMAIN del_recs
           /\ \A e \in ToPush(new_recs, upd_recs, del_recs) : e[2] # k

\* the comparator has run with an orphan in remote and found changes to make
\* for the other key
C12_Witness ==
    /\ pc = "compared"
    /\ Orphans # {}
    /\ ToPush(new_recs, upd_recs, del_recs) # {}

\* C13: after state_remote, local_state and new_remote have run, every key of
\* updated is a key of the reconciled state (a true update) or a key of
\* remote (an absorbed upsert).
C13_UpdatedKnown ==
    pc \in {"compared", "by_zone", "bulk_put", "bulk_put_ret", "exit0", "exit1"} =>
        \A k \in DOMAIN upd_recs :
           k \in DOMAIN state_recs \/ k \in DOMAIN remote_recs

\* the comparator has produced a true update and an absorbed upsert
C13_Witness ==
    /\ pc = "compared"
    /\ \E k \in DOMAIN upd_recs : k \in DOMAIN state_recs
    /\ \E k \in DOMAIN upd_recs :
          k \notin DOMAIN state_recs /\ k \in DOMAIN remote_recs

\* the state object of the configured backend does not exist
StateMissing ==
    IF backend = "local" THEN ~fs[filename].exists ELSE ~s3obj.exists

\* C14: when the state file or object does not exist, load_state returns an
\* empty state and the run continues, for the local and for the s3 backend
\* (with s3, a request that fails for another reason may still end the run).
C14_MissingStateIsEmpty ==
    [][(pc = "local" /\ sub # "lint" /\ StateMissing) =>
          \/ pc' = "state" /\ st' = EmptyHash /\ state_recs' = EmptyHash
          \/ backend = "s3" /\ pc' = "exit1"]_vars

\* the key build_reshash derives for the i-th Resource of v
KeyOf(v, i) == record_name(v[i].rtype, v[i].name)

\* two Resources of rtype PTR of v derive the same key
PtrCollision(v) ==
    \E j \in 1..Len(v) : \E i \in 1..(j - 1) :
       /\ v[i].rtype = "PTR"
       /\ v[j].rtype = "PTR"
       /\ record_name(v[i].rtype, v[i].name) = record_name(v[j].rtype, v[j].name)

\* the rdata of the Resources of v that derive the key k, in the order of v
RECURSIVE RecordsOf(_, _)
RecordsOf(v, k) ==
    IF v = << >> THEN << >>
    ELSE (IF KeyOf(v, 1) = k THEN v[1].records ELSE << >>)
            \o RecordsOf(Tail(v), k)

\* the last Resource of v that derives the key k
LastOf(v, k) ==
    v[CHOOSE i \in 1..Len(v) :
         KeyOf(v, i) = k /\ \A j \in (i + 1)..Len(v) : KeyOf(v, j) # k]

\* the index of v with every collision merged
Merged(v) ==
    [k \in {KeyOf(v, i) : i \in 1..Len(v)} |->
        [LastOf(v, k) EXCEPT !.records = RecordsOf(v, k)]]

\* C15: build_reshash returns failure if and only if two of its input
\* Resources of rtype PTR derive the same key; otherwise it returns the index
\* in which the Resources of one key are merged, their rdata concatenated.
C15_FailsIffPtrCollision ==
    [][pc = "converted" =>
          /\ failed_at' = "build_reshash" <=> PtrCollision(converted)
          /\ pc' = "local" => local_recs' = Merged(converted)]_vars

\* load_local has returned an index in which two Resources were merged
C15_Witness ==
    /\ pc = "local"
    /\ failed_at = ""
    /\ \E k \in DOMAIN local_recs : Len(local_recs[k].records) = 2

\* C16: when build_reshash fails on the local input, the run ends with exit
\* status 1 and nothing is mutated: no change batch is submitted, the
\* provider's records are as before and no state is written.
C16_IndexFailureAborts ==
    failed_at = "build_reshash" =>
        /\ pc = "exit1"
        /\ batches = << >>
        /\ remote = EmptyHash
        /\ writes = {}
        /\ ~s3obj.exists
        /\ retval = "none" /\ save_ret = "none"

\* an execute run has ended at the failed index build of two lines giving
\* the same PTR
C16_Witness ==
    /\ failed_at = "build_reshash"
    /\ sub = "execute"
    /\ pc = "exit1"
    /\ PtrCollision(converted)

\* the positions of zs whose non-empty domain is a substring of fqdn
Matching(fqdn, zs) ==
    {i \in 1..Len(zs) : zs[i].domain # "" /\ contains(fqdn, zs[i].domain)}

\* the first-declared of the matching positions of greatest domain length
BestOf(M, zs) ==
    CHOOSE i \in M : \A j \in M :
        \/ Len(zs[j].domain) < Len(zs[i].domain)
        \/ Len(zs[j].domain) = Len(zs[i].domain) /\ i <= j

\* C17: a record whose fqdn contains the non-empty domain of at least one
\* zone is attached to the zone id of the longest matching domain, the
\* first-declared among equal lengths; so the conversion fails for want of
\* a zone only when some record matches no zone at all.
C17_ZoneAttachment ==
    /\ pc = "converted" =>
          /\ Len(converted) = Len(tdns_records)
          /\ \A i \in 1..Len(converted) :
                converted[i].zone_id =
                    zones[BestOf(Matching(tdns_records[i].fqdn, zones), zones)].id
    /\ failed_at = "vec_from_tiny" =>
          \E i \in 1..Len(tdns_records) :
              Matching(tdns_records[i].fqdn, zones) = {}

\* the Resources of the records of recs that find_zone_id gives a zone
RECURSIVE Attached(_, _)
Attached(recs, zs) ==
    IF recs = << >> THEN << >>
    ELSE Converted([retval |-> << >>, error_flag |-> FALSE], Head(recs),
                   find_zone_id(Head(recs), zs)).retval
            \o Attached(Tail(recs), zs)

\* C18: vec_from_tiny drops a record for which no zone is found and still
\* returns the Resources of the records that have one.
C18_UnmatchedDropped ==
    [][pc = "tdns" =>
          /\ pc' = "converted"
          /\ converted' = Attached(tdns_records, zones)]_vars

\* C19: a lint run ends right after load_local, with no state load, no
\* provider call and no state save; neither a lint nor a noop run submits a
\* change batch, changes the provider's records or writes a state.
C19_LintNoopPure ==
    [][/\ sub = "lint" =>
             /\ pc' \in {"local", "exit0", "exit1"}
             /\ UNCHANGED <<st, state_recs, remote_recs>>
       /\ sub \in {"lint", "noop"} =>
             /\ pc' \notin {"by_zone", "bulk_put", "bulk_put_ret"}
             /\ UNCHANGED <<remote, fs, s3obj, batches, writes, save_ret>>]_vars

\* a noop run has returned with changes to make, none of them made
C19_Witness ==
    /\ sub = "noop"
    /\ pc = "exit0"
    /\ ToPush(new_recs, upd_recs, del_recs) # {}
    /\ batches = << >>
    /\ writes = {}

\* the prefixes from_string has an arm for
KnownPrefixes == {"+", "^", "C", "'", "@", "Z", ".", "&", "=", "-", "#"}

\* the line l has an unrecognized prefix
UnknownPrefix(l) == l # "" /\ Char(l, 1) \notin KnownPrefixes

\* one line of f has an unknown prefix and from_string accepts every other
OneUnknown(f, right_now) ==
    \E i \in 1..Len(f) :
       /\ UnknownPrefix(f[i])
       /\ \A j \in 1..Len(f) \ {i} : from_string(f[j], right_now).kind = "Some"

\* the lines of f without those of unknown prefix
KnownLines(f) == SelectSeq(f, LAMBDA l : ~UnknownPrefix(l))

\* load_local reads, with from_file, a file of which one line has an unknown
\* prefix and every other line is valid
ReadsOneUnknown ==
    /\ pc = "load_local"
    /\ mode = "file"
    /\ \E right_now \in Nows :
          /\ OneUnknown(files[1], right_now)
          /\ FromFileRet(from_file(files[1], right_now))

\* C20 as stated: a file with one line of unknown prefix and otherwise valid
\* lines parses, to the records of its valid lines.
C20_UnknownPrefixSkipped ==
    [][ReadsOneUnknown =>
          /\ pc' = "tdns"
          /\ \E right_now \in Nows :
                tdns_records' = from_file(KnownLines(files[1]), right_now).val]_vars

\* C20: a line with an unrecognized prefix is an error: from_file returns
\* None for a file with such a line, however valid the other lines are, and
\* load_local fails with no records.
C20_UnknownPrefixFails ==
    [][ReadsOneUnknown =>
          /\ pc' = "exit1"
          /\ failed_at' = "from_file"
          /\ tdns_records' = << >>]_vars

\* from_file has returned None for a file of a valid line and a line with
\* an unknown prefix
C20_Witness ==
    /\ mode = "file"
    /\ Len(files[1]) = 2
    /\ OneUnknown(files[1], "1700000000")
    /\ KnownLines(files[1]) # << >>
    /\ from_file(KnownLines(files[1]), "1700000000").val # << >>
    /\ failed_at = "from_file"
    /\ pc = "exit1"

\* C21: the process exits with status 0 only when every step succeeded: a
\* run that ends with status 0 has no failed push and no failed save_state.
C21_ExitZeroMeansSuccess ==
    pc = "exit0" => retval # "false" /\ save_ret # "false"

\* C22: the loop of bulk_put drains the queue: an iteration after which the
\* loop goes on has strictly shrunk the remaining queue, and the loop is left
\* with Ok only when the queue is empty.
C22_LoopShrinks ==
    [][pc = "bulk_put" =>
          /\ pc' = "bulk_put" => Len(records') < Len(records)
          /\ (pc' = "bulk_put_ret" /\ put_ret' = "Ok") => records' = << >>]_vars

C24_StateRoundTrip ==
    [][(backend = "local" /\ save_ret # "true" /\ save_ret' = "true") =>
          /\ fs'[filename].exists
          /\ fs'[filename].records = local_recs]_vars

\* C25: when listing the records of a zone fails the run bails out before
\* the comparator: main goes on from load_remote only with an index that
\* holds the records of every zone the provider has records for.
C25_FetchFailureBails ==
    [][(pc = "state" /\ pc' = "remote") =>
          DOMAIN remote_recs' = DOMAIN remote]_vars

\* the records the directive of a line yields, by its prefix
Directive(prefix, data, right_now) ==
    CASE prefix = "+" -> parse("A", data)
      [] prefix = "^" -> parse("PTR", data)
      [] prefix = "C" -> parse("CNAME", data)
      [] prefix = "'" -> parse_txt(data)
      [] prefix = "@" -> parse_mx(data)
      [] prefix = "Z" -> parse_soa(data, right_now)
      [] prefix = "." -> parse_anssoa(data)
      [] prefix = "&" -> parse_ans(data)
      [] prefix = "=" -> parse_aptr(data)
      [] OTHER -> << >>

\* None for no records, Some(the records) otherwise
ExpectedOf(yield) ==
    IF yield = << >> THEN [kind |-> "None", val |-> << >>]
    ELSE [kind |-> "Some", val |-> yield]

\* what from_string is to return for the non-empty line l
Expected(l, right_now) ==
    IF Char(l, 1) \in {"-", "#"} THEN [kind |-> "Some", val |-> << >>]
    ELSE ExpectedOf(Directive(Char(l, 1), SubSeq(l, 2, Len(l)), right_now))

\* load_local reads, with from_file, a file that opens
ReadsFile ==
    /\ pc = "load_local"
    /\ mode = "file"
    /\ \E right_now \in Nows : FromFileRet(from_file(files[1], right_now))

\* C26: for a line with a prefix, from_string returns Some(empty) when the
\* prefix is '-' or '#', None when the directive yields no record, and
\* Some(the records) otherwise; from_file returns None, and no records, if
\* and only if from_string returns None for one of the lines.
C26_FromStringClasses ==
    [][(ReadsFile /\ \A i \in 1..Len(files[1]) : files[1][i] # "") =>
          \E right_now \in Nows :
             /\ \A i \in 1..Len(files[1]) :
                   from_string(files[1][i], right_now)
                       = Expected(files[1][i], right_now)
             /\ (\E i \in 1..Len(files[1]) :
                    Expected(files[1][i], right_now).kind = "None")
                   <=> (pc' = "exit1" /\ failed_at' = "from_file")
             /\ pc' = "exit1" => tdns_records' = << >>
             /\ pc' \in {"exit1", "tdns"}]_vars

\* from_file has returned None for a file of a comment and a line whose
\* address is not an IPv4 address
C26_Witness ==
    /\ mode = "file"
    /\ files = << <<"#comment", "+h5.bc:1.1.1">> >>
    /\ pc = "exit1"
    /\ failed_at = "from_file"
    /\ tdns_records = << >>

\* C27: the sequence from_file returns is sorted non-decreasingly by fqdn
\* and holds no two records with the same rtype, fqdn and target.
C27_SortedDeduplicated ==
    pc = "tdns" =>
        /\ \A i \in 1..(Len(tdns_records) - 1) :
              ~StrLess(tdns_records[i + 1].fqdn, tdns_records[i].fqdn)
        /\ \A i, j \in 1..Len(tdns_records) :
              TdrEq(tdns_records[i], tdns_records[j]) => i = j

\* the number of records of v with the rtype t
CountOf(v, t) == Cardinality({i \in 1..Len(v) : v[i].rtype = t})

\* the fields of a '.' line with at least fqdn, ip and x, the ip empty or an
\* IPv4 address
ValidAnsSoa(parts) ==
    /\ Len(parts) >= 3
    /\ parts[2] = "" \/ IsIpv4Addr(parts[2])

\* the records v are 1 NS and 1 SOA, and 1 A exactly when the ip is present
NsSoaAndA(v, ip) ==
    /\ CountOf(v, "NS") = 1
    /\ CountOf(v, "SOA") = 1
    /\ CountOf(v, "A") = (IF ip = "" THEN 0 ELSE 1)
    /\ Len(v) = (IF ip = "" THEN 2 ELSE 3)

\* C28: a file of one valid '.' line parses to 1 NS, 1 SOA and, exactly when
\* the ip field is not empty, 1 A record: 2 records with an empty ip, 3 with
\* a valid ip.
C28_AnsSoaExpansion ==
    [][(/\ ReadsFile
        /\ Len(files[1]) = 1
        /\ files[1][1] # ""
        /\ Char(files[1][1], 1) = "."
        /\ ValidAnsSoa(split(SubSeq(files[1][1], 2, Len(files[1][1])), ":"))) =>
          /\ pc' = "tdns"
          /\ NsSoaAndA(tdns_records',
                split(SubSeq(files[1][1], 2, Len(files[1][1])), ":")[2])]_vars

\* C29: every Resource vec_from_tiny returns has the record's target as its
\* only value, the record's ttl, and as name the record's fqdn without
\* trailing dot, so that no local name ends in '.'.
C29_CanonicalResource ==
    pc = "converted" =>
        /\ Len(converted) = Len(tdns_records)
        /\ \A i \in 1..Len(converted) :
              /\ converted[i].records = <<tdns_records[i].target>>
              /\ converted[i].ttl = tdns_records[i].ttl
              /\ converted[i].rtype = tdns_records[i].rtype
              /\ converted[i].name = trim_end_matches(tdns_records[i].fqdn, ".")
              /\ ~ends_with(converted[i].name, ".")

\* the lines of f that are not empty
NonEmptyLines(f) == SelectSeq(f, LAMBDA l : l # "")

\* C30: an empty line yields no record and neither aborts nor crashes the
\* parsing: from_file returns for a file what it returns for the file's
\* non-empty lines.
C30_EmptyLineSkipped ==
    [][ReadsFile =>
          /\ pc' # "panic"
          /\ \E right_now \in Nows :
                FromFileRet(from_file(NonEmptyLines(files[1]), right_now))]_vars
====
